---- MODULE Spec2Model ----
(***************************************************************************)
(* Model of src/augmentations.py: the two crop-descriptor builders, the    *)
(* five preset builders and the dispatcher get_augmentations.              *)
(*                                                                         *)
(* A transform descriptor is the constructor call that the source writes:  *)
(*   [kind, params, children]                                              *)
(* kind is the albumentations class name, params the arguments written in  *)
(* the source, in source order, as <<name, value>> pairs, children the     *)
(* transforms handed to a composite (OneOf, OneOrOther, Compose).          *)
(* Arguments the source leaves out are left out here too (the library's    *)
(* defaults are not part of this file).                                    *)
(*                                                                         *)
(* Values: probabilities, limits and coefficients are in thousandths       *)
(* (p=0.5 is 500, p=1 is 1000, rotate_limit=15 is 15000); flags are 0/1;   *)
(* border modes are the cv2 enum codes; pixel sizes are plain integers.    *)
(* The crop scales are rationals in hundredths (0.75 is 75).               *)
(***************************************************************************)
EXTENDS Integers, Sequences, FiniteSets, TLC

VARIABLES last, heap, calls, nmut

vars == <<last, heap, calls, nmut>>

----------------------------------------------------------------------------
(* Bounds of the model                                                     *)

MaxHeight == 4
MaxCalls == 2
MaxMutations == 1

(* cv2 enum codes used by the source *)
BORDER_CONSTANT == 0
BORDER_REFLECT101 == 4

----------------------------------------------------------------------------
(* Descriptor constructors                                                 *)

Transform(kind, params) == [kind |-> kind, params |-> params, children |-> <<>>]

Composite(kind, children) == [kind |-> kind, params |-> <<>>, children |-> children]

(* int() taken for round-to-nearest *)
int_rounds(n, d) == (2 * n + d) \div (2 * d)

(* Python int() of the rational n/d: truncation toward zero.  The scales  *)
(* are floats in the source; here a scale is its numerator over ScaleDen   *)
(* and a product image_size[0] * scale is the numerator of an exact        *)
(* rational.  (Python's image_size[0], image_size[1] are image_size[1],    *)
(* image_size[2] here: TLA+ tuples count from 1.)                          *)
int(n, d) ==
    IF n >= 0 THEN n \div d ELSE -((-n) \div d)

(* Python min(a, b) of the rationals an/d and bn/d, as a numerator over d *)
min(an, bn) == IF bn < an THEN bn ELSE an

ScaleDen == 100

----------------------------------------------------------------------------
(* crop_transform, crop_transform_xview2                                   *)

RandomSizedCrop(lo, hi, height, width) ==
    Transform("RandomSizedCrop",
              << <<"min_max_height[0]", lo>>, <<"min_max_height[1]", hi>>,
                 <<"height", height>>, <<"width", width>> >>)

CropNonEmptyMaskIfExists(height, width) ==
    Transform("CropNonEmptyMaskIfExists",
              << <<"height", height>>, <<"width", width>> >>)

Resize(height, width) ==
    Transform("Resize", << <<"height", height>>, <<"width", width>> >>)

(* the ceiling left out of the upper bound *)
crop_transform_uncapped(image_size, min_scale, max_scale, input_size) ==
    Composite("OneOrOther",
      << RandomSizedCrop(
           int(image_size[1] * min_scale, ScaleDen),
           int(image_size[1] * max_scale, ScaleDen),
           image_size[1],
           image_size[2]),
         CropNonEmptyMaskIfExists(image_size[1], image_size[2]) >>)

crop_transform(image_size, min_scale, max_scale, input_size) ==
    Composite("OneOrOther",
      << RandomSizedCrop(
           int(image_size[1] * min_scale, ScaleDen),
           int(min(input_size * ScaleDen, image_size[1] * max_scale), ScaleDen),
           image_size[1],
           image_size[2]),
         CropNonEmptyMaskIfExists(image_size[1], image_size[2]) >>)

(* min_scale=0.75, max_scale=1.25, input_size=5000 *)
crop_transform_defaults == <<75, 125, 5000>>

(* the resize not doubled *)
crop_transform_xview2_resize_once(image_size, min_scale, max_scale, input_size) ==
    Composite("OneOrOther",
      << RandomSizedCrop(
           int(image_size[1] * min_scale, ScaleDen),
           int(min(input_size * ScaleDen, image_size[1] * max_scale), ScaleDen),
           image_size[1],
           image_size[2]),
         Composite("Compose",
           << Resize(input_size, input_size),
              CropNonEmptyMaskIfExists(image_size[1], image_size[2]) >>) >>)

crop_transform_xview2(image_size, min_scale, max_scale, input_size) ==
    Composite("OneOrOther",
      << RandomSizedCrop(
           int(image_size[1] * min_scale, ScaleDen),
           int(min(input_size * ScaleDen, image_size[1] * max_scale), ScaleDen),
           image_size[1],
           image_size[2]),
         Composite("Compose",
           << Resize(input_size * 2, input_size * 2),
              CropNonEmptyMaskIfExists(image_size[1], image_size[2]) >>) >>)

(* min_scale=0.4, max_scale=0.75, input_size=1024 *)
crop_transform_xview2_defaults == <<40, 75, 1024>>

----------------------------------------------------------------------------
(* Leaf transforms written by the preset builders                          *)

NoOp == Transform("NoOp", <<>>)

RandomBrightnessContrastByMax ==
    Transform("RandomBrightnessContrast", << <<"brightness_by_max", 1>> >>)

RandomFog ==
    Transform("RandomFog",
              << <<"fog_coef_lower", 10>>, <<"fog_coef_upper", 300>>, <<"p", 100>> >>)

RandomRotate90 == Transform("RandomRotate90", << <<"p", 1000>> >>)

Transpose == Transform("Transpose", << <<"p", 500>> >>)

ShiftScaleRotate(scale_limit, rotate_limit, border_mode) ==
    Transform("ShiftScaleRotate",
              << <<"scale_limit", scale_limit>>, <<"rotate_limit", rotate_limit>>,
                 <<"border_mode", border_mode>> >>)

----------------------------------------------------------------------------
(* The preset builders                                                     *)

safe_augmentations ==
    << RandomRotate90,
       Transpose >>

(* mask_dropout consulted: the masked dropout switched on *)
light_augmentations_mask_dropout(mask_dropout) ==
    << Transform("Downscale",
                 << <<"scale_min", 300>>, <<"scale_max", 300>>, <<"always_apply", 1>> >>),
       RandomRotate90,
       Transpose,
       Transform("RandomBrightnessContrast", <<>>),
       ShiftScaleRotate(50, 15000, BORDER_CONSTANT),
       IF mask_dropout THEN Transform("MaskDropout", <<>>) ELSE NoOp >>

light_augmentations(mask_dropout) ==
    << Transform("Downscale",
                 << <<"scale_min", 300>>, <<"scale_max", 300>>, <<"always_apply", 1>> >>),
       RandomRotate90,
       Transpose,
       Transform("RandomBrightnessContrast", <<>>),
       ShiftScaleRotate(50, 15000, BORDER_CONSTANT) >>

(* the fog step not conditioned on for_3ch_img *)
medium_augmentations_always_fog(for_3ch_img, mask_dropout) ==
    << Transform("HorizontalFlip", <<>>),
       ShiftScaleRotate(100, 15000, BORDER_CONSTANT),
       Composite("OneOf", << Transform("GaussianBlur", <<>>), NoOp >>),
       Composite("OneOf", << Transform("CoarseDropout", <<>>), NoOp >>),
       Transform("GaussNoise", <<>>),
       IF for_3ch_img
       THEN Composite("OneOf",
              << RandomBrightnessContrastByMax,
                 Transform("CLAHE", <<>>),
                 Transform("HueSaturationValue", <<>>),
                 Transform("RGBShift", <<>>),
                 Transform("RandomGamma", <<>>) >>)
       ELSE Composite("OneOf",
              << RandomBrightnessContrastByMax,
                 Transform("RandomGamma", <<>>) >>),
       RandomFog >>

medium_augmentations(for_3ch_img, mask_dropout) ==
    << Transform("HorizontalFlip", <<>>),
       ShiftScaleRotate(100, 15000, BORDER_CONSTANT),
       Composite("OneOf", << Transform("GaussianBlur", <<>>), NoOp >>),
       Composite("OneOf", << Transform("CoarseDropout", <<>>), NoOp >>),
       Transform("GaussNoise", <<>>),
       IF for_3ch_img
       THEN Composite("OneOf",
              << RandomBrightnessContrastByMax,
                 Transform("CLAHE", <<>>),
                 Transform("HueSaturationValue", <<>>),
                 Transform("RGBShift", <<>>),
                 Transform("RandomGamma", <<>>) >>)
       ELSE Composite("OneOf",
              << RandomBrightnessContrastByMax,
                 Transform("RandomGamma", <<>>) >>),
       IF for_3ch_img THEN RandomFog ELSE NoOp >>

(* the color choice not conditioned on for_3ch_img *)
hard_augmentations_always_color(for_3ch_img, mask_dropout) ==
    << RandomRotate90,
       Transpose,
       Composite("OneOf",
         << ShiftScaleRotate(200, 45000, BORDER_REFLECT101),
            Transform("ElasticTransform",
                      << <<"border_mode", BORDER_REFLECT101>>, <<"alpha_affine", 5000>> >>) >>),
       Composite("OneOf",
         << RandomBrightnessContrastByMax,
            Transform("CLAHE", <<>>),
            Transform("FancyPCA", <<>>),
            Transform("HueSaturationValue", <<>>),
            Transform("RGBShift", <<>>),
            Transform("RandomGamma", <<>>) >>),
       Composite("OneOf",
         << Transform("RandomGridShuffle", <<>>),
            Transform("CoarseDropout", <<>>) >>),
       Composite("OneOf",
         << Transform("GaussianBlur", <<>>),
            Transform("GaussNoise", <<>>) >>),
       IF for_3ch_img THEN RandomFog ELSE NoOp >>

hard_augmentations(for_3ch_img, mask_dropout) ==
    << RandomRotate90,
       Transpose,
       Composite("OneOf",
         << ShiftScaleRotate(200, 45000, BORDER_REFLECT101),
            Transform("ElasticTransform",
                      << <<"border_mode", BORDER_REFLECT101>>, <<"alpha_affine", 5000>> >>) >>),
       IF for_3ch_img
       THEN Composite("OneOf",
              << RandomBrightnessContrastByMax,
                 Transform("CLAHE", <<>>),
                 Transform("FancyPCA", <<>>),
                 Transform("HueSaturationValue", <<>>),
                 Transform("RGBShift", <<>>),
                 Transform("RandomGamma", <<>>) >>)
       ELSE Composite("OneOf",
              << RandomBrightnessContrastByMax,
                 Transform("RandomGamma", <<>>) >>),
       Composite("OneOf",
         << Transform("RandomGridShuffle", <<>>),
            Transform("CoarseDropout", <<>>) >>),
       Composite("OneOf",
         << Transform("GaussianBlur", <<>>),
            Transform("GaussNoise", <<>>) >>),
       IF for_3ch_img THEN RandomFog ELSE NoOp >>

(* the transpose moved behind the color transforms *)
one_augmentations_transpose_last(mask_dropout) ==
    << RandomRotate90,
       RandomBrightnessContrastByMax,
       Transform("CLAHE", <<>>),
       Transform("FancyPCA", <<>>),
       Transform("HueSaturationValue", <<>>),
       Transform("RGBShift", <<>>),
       Transform("RandomGamma", <<>>),
       Transpose >>

one_augmentations(mask_dropout) ==
    << RandomRotate90,
       Transpose,
       RandomBrightnessContrastByMax,
       Transform("CLAHE", <<>>),
       Transform("FancyPCA", <<>>),
       Transform("HueSaturationValue", <<>>),
       Transform("RGBShift", <<>>),
       Transform("RandomGamma", <<>>) >>

(* the "one" branch missing *)
get_augmentations_without_one(augmentation, for_3ch_img) ==
    IF augmentation = "hard" THEN hard_augmentations(for_3ch_img, TRUE)
    ELSE IF augmentation = "medium" THEN medium_augmentations(for_3ch_img, TRUE)
    ELSE IF augmentation = "light" THEN light_augmentations(TRUE)
    ELSE IF augmentation = "safe" THEN safe_augmentations
    ELSE <<>>

(* the fallback made the safe preset *)
get_augmentations_fallback_safe(augmentation, for_3ch_img) ==
    IF augmentation = "hard" THEN hard_augmentations(for_3ch_img, TRUE)
    ELSE IF augmentation = "medium" THEN medium_augmentations(for_3ch_img, TRUE)
    ELSE IF augmentation = "light" THEN light_augmentations(TRUE)
    ELSE IF augmentation = "one" THEN one_augmentations(TRUE)
    ELSE safe_augmentations

(* get_augmentations calls the builders that take mask_dropout with its   *)
(* default, True                                                          *)
get_augmentations(augmentation, for_3ch_img) ==
    IF augmentation = "hard" THEN hard_augmentations(for_3ch_img, TRUE)
    ELSE IF augmentation = "medium" THEN medium_augmentations(for_3ch_img, TRUE)
    ELSE IF augmentation = "light" THEN light_augmentations(TRUE)
    ELSE IF augmentation = "safe" THEN safe_augmentations
    ELSE IF augmentation = "one" THEN one_augmentations(TRUE)
    ELSE <<>>

----------------------------------------------------------------------------
(* Inputs                                                                  *)

Names == {"safe", "light", "medium", "hard", "one", "", "Hard", "SAFE", "heavy"}

ValidNames == {"safe", "light", "medium", "hard", "one"}

Heights == (1..MaxHeight) \cup {512, 1000}

Widths == {512, 1000}

Scales == {40, 75, 125}

Ceilings == {2, 1024, 5000}

(* The value a call of fn with the argument tuple args returns.  A caller  *)
(* that leaves the optional arguments of a crop builder out gets the       *)
(* defaults of its signature.                                              *)
Result(fn, args) ==
    CASE fn = "get_augmentations"     -> get_augmentations(args[1], args[2])
      [] fn = "safe_augmentations"    -> safe_augmentations
      [] fn = "light_augmentations"   -> light_augmentations(args[1])
      [] fn = "medium_augmentations"  -> medium_augmentations(args[1], args[2])
      [] fn = "hard_augmentations"    -> hard_augmentations(args[1], args[2])
      [] fn = "one_augmentations"     -> one_augmentations(args[1])
      [] fn = "crop_transform"        -> crop_transform(args[1], args[2], args[3], args[4])
      [] fn = "crop_transform_xview2" -> crop_transform_xview2(args[1], args[2], args[3], args[4])

---------------------------------------------------------------------------------------------------------------------------------------------------
(* Specification Spec: one call at a time; last holds the call and the     *)
(* value it returned                                                       *)

CallGetAugmentations ==
    /\ \E augmentation \in Names, for_3ch_img \in BOOLEAN :
         last' = [fn |-> "get_augmentations",
                  args |-> <<augmentation, for_3ch_img>>,
                  ret |-> Result("get_augmentations", <<augmentation, for_3ch_img>>)]
    /\ UNCHANGED <<heap, calls, nmut>>

CallSafe ==
    /\ last' = [fn |-> "safe_augmentations", args |-> <<>>,
                ret |-> Result("safe_augmentations", <<>>)]
    /\ UNCHANGED <<heap, calls, nmut>>

CallLight ==
    /\ \E mask_dropout \in BOOLEAN :
         last' = [fn |-> "light_augmentations", args |-> <<mask_dropout>>,
                  ret |-> Result("light_augmentations", <<mask_dropout>>)]
    /\ UNCHANGED <<heap, calls, nmut>>

CallMedium ==
    /\ \E for_3ch_img \in BOOLEAN, mask_dropout \in BOOLEAN :
         last' = [fn |-> "medium_augmentations", args |-> <<for_3ch_img, mask_dropout>>,
                  ret |-> Result("medium_augmentations", <<for_3ch_img, mask_dropout>>)]
    /\ UNCHANGED <<heap, calls, nmut>>

CallHard ==
    /\ \E for_3ch_img \in BOOLEAN, mask_dropout \in BOOLEAN :
         last' = [fn |-> "hard_augmentations", args |-> <<for_3ch_img, mask_dropout>>,
                  ret |-> Result("hard_augmentations", <<for_3ch_img, mask_dropout>>)]
    /\ UNCHANGED <<heap, calls, nmut>>

CallOne ==
    /\ \E mask_dropout \in BOOLEAN :
         last' = [fn |-> "one_augmentations", args |-> <<mask_dropout>>,
                  ret |-> Result("one_augmentations", <<mask_dropout>>)]
    /\ UNCHANGED <<heap, calls, nmut>>

CallCropTransform ==
    /\ \E h \in Heights, w \in Widths,
          optional \in {crop_transform_defaults} \cup (Scales \X Scales \X Ceilings) :
         LET args == << <<h, w>> >> \o optional
         IN  last' = [fn |-> "crop_transform", args |-> args,
                      ret |-> Result("crop_transform", args)]
    /\ UNCHANGED <<heap, calls, nmut>>

CallCropTransformXview2 ==
    /\ \E h \in Heights, w \in Widths,
          optional \in {crop_transform_xview2_defaults} \cup (Scales \X Scales \X Ceilings) :
         LET args == << <<h, w>> >> \o optional
         IN  last' = [fn |-> "crop_transform_xview2", args |-> args,
                      ret |-> Result("crop_transform_xview2", args)]
    /\ UNCHANGED <<heap, calls, nmut>>

Init ==
    /\ last = [fn |-> "none", args |-> <<>>, ret |-> <<>>]
    /\ heap = <<>>
    /\ calls = <<>>
    /\ nmut = 0

Next ==
    \/ CallGetAugmentations
    \/ CallSafe
    \/ CallLight
    \/ CallMedium
    \/ CallHard
    \/ CallOne
    \/ CallCropTransform
    \/ CallCropTransformXview2

Spec == Init /\ [][Next]_vars

----------------------------------------------------------------------------
(* Specification SpecHeap: the objects the preset builders construct.      *)
(* heap[id] is an object: a transform, or the Python list a builder        *)
(* returns (kind "list"); its children are object ids.  calls is the       *)
(* history of the calls made, each with the id of the list it returned;    *)
(* the caller may afterwards change the objects it was handed.             *)

RECURSIVE Size(_)
Size(t) ==
    LET n == Len(t.children)
        sum[i \in 0..n] == IF i = 0 THEN 0 ELSE sum[i - 1] + Size(t.children[i])
    IN  1 + sum[n]

(* the objects of the tree t, the root at id base, in construction order *)
RECURSIVE Flatten(_, _)
Flatten(t, base) ==
    LET n == Len(t.children)
        at[i \in 1..(n + 1)] ==
            IF i = 1 THEN base + 1 ELSE at[i - 1] + Size(t.children[i - 1])
        below[i \in 0..n] ==
            IF i = 0 THEN <<>> ELSE below[i - 1] \o Flatten(t.children[i], at[i])
    IN  << [kind |-> t.kind, params |-> t.params,
            children |-> [i \in 1..n |-> at[i]]] >> \o below[n]

(* the value the object id stands for *)
RECURSIVE Deref(_, _)
Deref(h, id) ==
    [kind |-> h[id].kind, params |-> h[id].params,
     children |-> [i \in 1..Len(h[id].children) |-> Deref(h, h[id].children[i])]]

(* the objects reachable from id *)
RECURSIVE Reach(_, _)
Reach(h, id) ==
    {id} \cup UNION {Reach(h, h[id].children[i]) : i \in 1..Len(h[id].children)}

(* a list held across calls and handed out again for the same arguments *)
Construct_cached(h, cs, fn, args) ==
    IF \E i \in 1..Len(cs) : cs[i].fn = fn /\ cs[i].args = args
    THEN [heap |-> h,
          ret |-> cs[CHOOSE i \in 1..Len(cs) : cs[i].fn = fn /\ cs[i].args = args].ret]
    ELSE [heap |-> h \o Flatten(Composite("list", Result(fn, args)), Len(h) + 1),
          ret |-> Len(h) + 1]

(* A call evaluates the list display of its builder: every transform in   *)
(* it and the list itself are objects constructed by this call.           *)
Construct(h, cs, fn, args) ==
    [heap |-> h \o Flatten(Composite("list", Result(fn, args)), Len(h) + 1),
     ret |-> Len(h) + 1]

Record(fn, args) ==
    LET made == Construct(heap, calls, fn, args)
    IN  /\ heap' = made.heap
        /\ calls' = Append(calls,
                      [fn |-> fn, args |-> args, ret |-> made.ret, mutated |-> FALSE])
        /\ UNCHANGED <<last, nmut>>

HeapGetAugmentations ==
    /\ Len(calls) < MaxCalls
    /\ \E augmentation \in ValidNames \cup {"heavy"}, for_3ch_img \in BOOLEAN :
         Record("get_augmentations", <<augmentation, for_3ch_img>>)

HeapSafe ==
    /\ Len(calls) < MaxCalls
    /\ Record("safe_augmentations", <<>>)

HeapLight ==
    /\ Len(calls) < MaxCalls
    /\ \E mask_dropout \in BOOLEAN : Record("light_augmentations", <<mask_dropout>>)

HeapMedium ==
    /\ Len(calls) < MaxCalls
    /\ \E for_3ch_img \in BOOLEAN, mask_dropout \in BOOLEAN :
         Record("medium_augmentations", <<for_3ch_img, mask_dropout>>)

HeapHard ==
    /\ Len(calls) < MaxCalls
    /\ \E for_3ch_img \in BOOLEAN, mask_dropout \in BOOLEAN :
         Record("hard_augmentations", <<for_3ch_img, mask_dropout>>)

HeapOne ==
    /\ Len(calls) < MaxCalls
    /\ \E mask_dropout \in BOOLEAN : Record("one_augmentations", <<mask_dropout>>)

SetParam(params, name, value) ==
    IF \E i \in 1..Len(params) : params[i][1] = name
    THEN [i \in 1..Len(params) |->
            IF params[i][1] = name THEN <<name, value>> ELSE params[i]]
    ELSE Append(params, <<name, value>>)

(* the caller sets the probability of the last element of a list it was   *)
(* handed to 0: result[-1].p = 0                                           *)
CallerSetsP ==
    /\ nmut < MaxMutations
    /\ \E c \in 1..Len(calls) :
         LET elements == heap[calls[c].ret].children
         IN  /\ elements # <<>>
             /\ heap' = [heap EXCEPT ![elements[Len(elements)]].params =
                                        SetParam(@, "p", 0)]
             /\ calls' = [calls EXCEPT ![c].mutated = TRUE]
    /\ nmut' = nmut + 1
    /\ UNCHANGED last

(* the caller removes the last element of a list it was handed:            *)
(* result.pop()                                                            *)
CallerPops ==
    /\ nmut < MaxMutations
    /\ \E c \in 1..Len(calls) :
         LET o == calls[c].ret
         IN  /\ heap[o].children # <<>>
             /\ heap' = [heap EXCEPT ![o].children = SubSeq(@, 1, Len(@) - 1)]
             /\ calls' = [calls EXCEPT ![c].mutated = TRUE]
    /\ nmut' = nmut + 1
    /\ UNCHANGED last

NextHeap ==
    \/ HeapGetAugmentations
    \/ HeapSafe
    \/ HeapLight
    \/ HeapMedium
    \/ HeapHard
    \/ HeapOne
    \/ CallerSetsP
    \/ CallerPops

SpecHeap == Init /\ [][NextHeap]_vars

----------------------------------------------------------------------------
(* Vocabulary of the properties                                            *)

IsMediumCall ==
    \/ last.fn = "get_augmentations" /\ last.args[1] = "medium"
    \/ last.fn = "medium_augmentations"

IsHardCall ==
    \/ last.fn = "get_augmentations" /\ last.args[1] = "hard"
    \/ last.fn = "hard_augmentations"

(* the for_3ch_img argument of a call of the medium or hard preset *)
ThreeChannel ==
    IF last.fn = "get_augmentations" THEN last.args[2] ELSE last.args[1]

Kinds(seq) == [i \in 1..Len(seq) |-> seq[i].kind]

HasParam(d, name, value) ==
    \E i \in 1..Len(d.params) : d.params[i] = <<name, value>>

IsCropCall == last.fn \in {"crop_transform", "crop_transform_xview2"}

WindowLower == last.ret.children[1].params[1][2]

WindowUpper == last.ret.children[1].params[2][2]

----------------------------------------------------------------------------
PresetCount(name) ==
    CASE name = "safe" -> 2
      [] name = "light" -> 5
      [] name = "medium" -> 7
      [] name = "hard" -> 7
      [] name = "one" -> 8

(* C1: for each of the five valid names and either for_3ch_img,            *)
(* get_augmentations returns a non-empty sequence of the fixed length      *)
(* safe=2, light=5, medium=7, hard=7, one=8.                               *)

C1_PresetLengths ==
    (last.fn = "get_augmentations" /\ last.args[1] \in ValidNames)
        => /\ Len(last.ret) > 0
           /\ Len(last.ret) = PresetCount(last.args[1])

C1_Witness ==
    /\ last.fn = "get_augmentations"
    /\ last.args = <<"one", FALSE>>
    /\ Len(last.ret) = 8

(* C2: for every name that is not exactly one of the five, and either      *)
(* for_3ch_img, get_augmentations returns the empty sequence.              *)

C2_UnknownNameEmpty ==
    (last.fn = "get_augmentations" /\ last.args[1] \notin ValidNames)
        => last.ret = <<>>

C2_Witness ==
    /\ last.fn = "get_augmentations"
    /\ last.args = <<"Hard", TRUE>>
    /\ last.ret = <<>>

ColorChoiceOk(c, kinds) ==
    /\ c.kind = "OneOf"
    /\ Kinds(c.children) = kinds
    /\ HasParam(c.children[1], "brightness_by_max", 1)

(* C3: the color-choice composite (element 6 of medium, element 4 of hard) *)
(* has the 2 children brightness-contrast(max-relative), random-gamma when *)
(* for_3ch_img is false; 5 children in medium and 6 in hard (the 5 plus    *)
(* fancy-PCA) when it is true; for the builders and for the dispatcher.    *)

C3_ColorChoiceChildren ==
    /\ IsMediumCall =>
         ColorChoiceOk(last.ret[6],
            IF ThreeChannel
            THEN <<"RandomBrightnessContrast", "CLAHE", "HueSaturationValue",
                   "RGBShift", "RandomGamma">>
            ELSE <<"RandomBrightnessContrast", "RandomGamma">>)
    /\ IsHardCall =>
         ColorChoiceOk(last.ret[4],
            IF ThreeChannel
            THEN <<"RandomBrightnessContrast", "CLAHE", "FancyPCA",
                   "HueSaturationValue", "RGBShift", "RandomGamma">>
            ELSE <<"RandomBrightnessContrast", "RandomGamma">>)

C3_Witness ==
    /\ last.fn = "get_augmentations"
    /\ last.args = <<"hard", FALSE>>
    /\ Len(last.ret[4].children) = 2

(* C4: in the medium and the hard preset the last element is a no-op when  *)
(* for_3ch_img is false and a random-fog with p=0.1 and coefficient bounds *)
(* [0.01, 0.3] when it is true.                                            *)

C4_FogStep ==
    (IsMediumCall \/ IsHardCall) =>
        LET fog == last.ret[Len(last.ret)]
        IN  IF ThreeChannel
            THEN /\ fog.kind = "RandomFog"
                 /\ fog.children = <<>>
                 /\ HasParam(fog, "p", 100)
                 /\ HasParam(fog, "fog_coef_lower", 10)
                 /\ HasParam(fog, "fog_coef_upper", 300)
            ELSE fog.kind = "NoOp" /\ fog.children = <<>>

C4_Witness ==
    /\ last.fn = "medium_augmentations"
    /\ last.args[1] = FALSE
    /\ last.ret[7].kind = "NoOp"

Least(a, b) == IF a <= b THEN a ELSE b

(* C5: both crop builders compute the window as                            *)
(* lower = floor(height * min_scale),                                      *)
(* upper = floor(min(input_size, height * max_scale))                      *)
(*       = min(input_size, floor(height * max_scale));                     *)
(* with the defaults crop_transform((1000, 1000)) gives [750, 1250] and    *)
(* crop_transform_xview2((512, 512)) gives [204, 384].                     *)

C5_CropWindow ==
    IsCropCall =>
        LET h == last.args[1][1]
            lo == last.args[2]
            hi == last.args[3]
            c == last.args[4]
        IN  /\ WindowLower = (h * lo) \div 100
            /\ WindowUpper = Least(c * 100, h * hi) \div 100
            /\ WindowUpper = Least(c, (h * hi) \div 100)
            /\ (last.fn = "crop_transform"
                  /\ last.args = << <<1000, 1000>> >> \o crop_transform_defaults)
                 => <<WindowLower, WindowUpper>> = <<750, 1250>>
            /\ (last.fn = "crop_transform_xview2"
                  /\ last.args = << <<512, 512>> >> \o crop_transform_xview2_defaults)
                 => <<WindowLower, WindowUpper>> = <<204, 384>>

C5_Witness ==
    /\ last.fn = "crop_transform_xview2"
    /\ last.args = << <<512, 512>>, 40, 75, 1024 >>
    /\ WindowLower = 204
    /\ WindowUpper = 384

MaskCropOk(d) ==
    /\ d.kind = "CropNonEmptyMaskIfExists"
    /\ d.children = <<>>
    /\ d.params = << <<"height", last.args[1][1]>>, <<"width", last.args[1][2]>> >>

(* C6: each crop builder returns a choose-either composite of exactly two  *)
(* branches: a random-sized crop with output size (height, width), then a  *)
(* mask-biased crop to (height, width), alone in crop_transform and after  *)
(* a resize to (2 * input_size, 2 * input_size) in crop_transform_xview2.  *)

C6_CropBranches ==
    IsCropCall =>
        /\ last.ret.kind = "OneOrOther"
        /\ Len(last.ret.children) = 2
        /\ last.ret.children[1].kind = "RandomSizedCrop"
        /\ HasParam(last.ret.children[1], "height", last.args[1][1])
        /\ HasParam(last.ret.children[1], "width", last.args[1][2])
        /\ last.fn = "crop_transform" => MaskCropOk(last.ret.children[2])
        /\ last.fn = "crop_transform_xview2" =>
             LET second == last.ret.children[2]
             IN  /\ second.kind = "Compose"
                 /\ Len(second.children) = 2
                 /\ second.children[1].kind = "Resize"
                 /\ second.children[1].params =
                       << <<"height", 2 * last.args[4]>>, <<"width", 2 * last.args[4]>> >>
                 /\ last.args[4] = 1024 =>
                       second.children[1].params = << <<"height", 2048>>, <<"width", 2048>> >>
                 /\ MaskCropOk(second.children[2])

C6_Witness ==
    /\ last.fn = "crop_transform_xview2"
    /\ last.args[4] = 1024
    /\ last.ret.children[2].children[1].params[1] = <<"height", 2048>>

Untouched(i) == ~calls[i].mutated

(* C7: two calls of a preset builder (or of get_augmentations) with the    *)
(* same arguments, whatever was called or changed in between, return       *)
(* structurally equal sequences made of distinct objects: no object is     *)
(* reachable from two results, so a change to one result changes neither   *)
(* the other nor the result of a later call.                               *)

C7_FreshEqualResults ==
    LET reach == [i \in 1..Len(calls) |-> Reach(heap, calls[i].ret)]
    IN  /\ \A i \in 1..Len(calls), j \in 1..Len(calls) :
             i < j =>
                /\ reach[i] \cap reach[j] = {}
                /\ (calls[i].fn = calls[j].fn /\ calls[i].args = calls[j].args
                      /\ Untouched(i) /\ Untouched(j))
                     => Deref(heap, calls[i].ret) = Deref(heap, calls[j].ret)
        /\ \A i \in 1..Len(calls) :
             Untouched(i) =>
                Deref(heap, calls[i].ret)
                    = Composite("list", Result(calls[i].fn, calls[i].args))

C7_Witness ==
    /\ Len(calls) = 2
    /\ calls[1].fn = "hard_augmentations"
    /\ calls[2].fn = "hard_augmentations"
    /\ calls[1].args = calls[2].args
    /\ calls[1].mutated
    /\ ~calls[2].mutated
    /\ Deref(heap, calls[1].ret) # Deref(heap, calls[2].ret)
    /\ Deref(heap, calls[2].ret) = Composite("list", Result("hard_augmentations", calls[2].args))

(* C8: the result depends only on the name and, for medium and hard, on    *)
(* for_3ch_img: mask_dropout changes nothing in light, medium, hard, one,  *)
(* and for_3ch_img changes nothing in get_augmentations for safe, light,   *)
(* one and every unrecognized name.                                        *)

C8_IgnoredArguments ==
    /\ last.fn \in {"light_augmentations", "one_augmentations"} =>
         last.ret = Result(last.fn, <<~last.args[1]>>)
    /\ last.fn \in {"medium_augmentations", "hard_augmentations"} =>
         last.ret = Result(last.fn, <<last.args[1], ~last.args[2]>>)
    /\ (last.fn = "get_augmentations" /\ last.args[1] \notin {"medium", "hard"}) =>
         last.ret = Result(last.fn, <<last.args[1], ~last.args[2]>>)

C8_Witness ==
    /\ last.fn = "medium_augmentations"
    /\ last.args = <<TRUE, FALSE>>
    /\ last.ret = Result("medium_augmentations", <<TRUE, TRUE>>)

Geometric ==
    {"RandomRotate90", "Transpose", "HorizontalFlip", "ShiftScaleRotate",
     "ElasticTransform", "RandomGridShuffle"}

ColorNoise ==
    {"RandomBrightnessContrast", "CLAHE", "FancyPCA", "HueSaturationValue",
     "RGBShift", "RandomGamma", "GaussNoise", "GaussianBlur", "Downscale",
     "RandomFog"}

(* the kinds an element applies: its own, or those of its children *)
LeafKinds(d) ==
    IF d.children = <<>> THEN {d.kind}
    ELSE {d.children[i].kind : i \in 1..Len(d.children)}

(* a geometric transform, or a composite of geometric transforms only *)
IsGeometric(d) == LeafKinds(d) \subseteq Geometric

(* a geometric transform, or a composite that holds one *)
HoldsGeometric(d) == LeafKinds(d) \cap Geometric # {}

HoldsColorNoise(d) == LeafKinds(d) \cap ColorNoise # {}

GeometricFirst(seq) ==
    \A i \in 1..Len(seq), j \in 1..Len(seq) :
        (i < j /\ HoldsColorNoise(seq[i])) => ~IsGeometric(seq[j])

StrictlyGeometricFirst(seq) ==
    \A i \in 1..Len(seq), j \in 1..Len(seq) :
        (i < j /\ HoldsColorNoise(seq[i])) => ~HoldsGeometric(seq[j])

(* C9 as stated: in every sequence get_augmentations returns, no geometric *)
(* transform (rotate-90, transpose, horizontal-flip, shift-scale-rotate,   *)
(* elastic-transform, grid-shuffle, or a composite of these) stands at a   *)
(* later position than a color, noise, blur, downscale or fog transform.   *)

C9_GeometricBeforeColor ==
    last.fn = "get_augmentations" => GeometricFirst(last.ret)

(* C9 as amended: the order holds in the safe, medium and one presets,     *)
(* also when a composite that holds one geometric transform counts as      *)
(* geometric; in the hard preset it holds except that the choice between   *)
(* grid-shuffle and coarse-dropout stands after the color choice; in the   *)
(* light preset it does not hold: downscale stands before rotate-90 and    *)
(* brightness-contrast before shift-scale-rotate.                          *)

C9_GeometricBeforeColorAmended ==
    last.fn = "get_augmentations" =>
        /\ last.args[1] \in {"safe", "medium", "one"} =>
             StrictlyGeometricFirst(last.ret)
        /\ last.args[1] = "hard" =>
             /\ GeometricFirst(last.ret)
             /\ HoldsColorNoise(last.ret[4])
             /\ LeafKinds(last.ret[5]) = {"RandomGridShuffle", "CoarseDropout"}
        /\ last.args[1] = "light" =>
             /\ ~GeometricFirst(last.ret)
             /\ Kinds(last.ret)[1] = "Downscale"
             /\ Kinds(last.ret)[2] = "RandomRotate90"
             /\ Kinds(last.ret)[4] = "RandomBrightnessContrast"
             /\ Kinds(last.ret)[5] = "ShiftScaleRotate"

C9_Witness ==
    /\ last.fn = "get_augmentations"
    /\ last.args = <<"medium", TRUE>>
    /\ StrictlyGeometricFirst(last.ret)
    /\ HoldsGeometric(last.ret[2])
    /\ HoldsColorNoise(last.ret[3])

(* C10: with min_scale <= max_scale the window is valid (lower <= upper)   *)
(* if and only if floor(height * min_scale) <= input_size; the builder     *)
(* returns its descriptor in either case, and the width has no influence   *)
(* on the window.                                                          *)

C10_WindowValidity ==
    IsCropCall =>
        /\ last.args[2] <= last.args[3] =>
             ((WindowLower <= WindowUpper)
                <=> ((last.args[1][1] * last.args[2]) \div 100 <= last.args[4]))
        /\ last.ret.kind = "OneOrOther"
        /\ \A w \in Widths :
             LET other == Result(last.fn, << <<last.args[1][1], w>> >> \o Tail(last.args))
             IN  /\ other.children[1].params[1][2] = WindowLower
                 /\ other.children[1].params[2][2] = WindowUpper

C10_Witness ==
    /\ IsCropCall
    /\ last.args[2] <= last.args[3]
    /\ WindowLower > WindowUpper
    /\ last.ret.kind = "OneOrOther"

====
